---- MODULE Spec2Model ----
(***************************************************************************)
(* Model of the warehouse economics engine of mynewcalcul.py: the share    *)
(* allocator (normalize_shares), the space model (calculate_areas), the    *)
(* financial engine (calculate_financials), the minimum-loan computation   *)
(* and the break-even solver (calculate_bep over scipy.optimize.bisect).   *)
(*                                                                         *)
(* Numbers.  The program computes in Python floats.  The model computes    *)
(* in exact rationals <<n, d>> (d > 0, lowest terms); None is <<>>.        *)
(* Rounding of IEEE doubles (relative error 2^-53 per operation) is not    *)
(* modelled; every tolerance the program or its specification states       *)
(* (1e-9, 1e-8, 0.01) is many orders of magnitude above it.                *)
(***************************************************************************)
EXTENDS Integers, Sequences, FiniteSets, TLC

VARIABLES
  shares,            \* st.session_state.shares
  call,              \* the last normalize_shares call: its arguments, the shares before it
  edits,             \* normalize_shares calls made so far
  session_params,    \* st.session_state.params: the WarehouseParams the engine is given
  extended_disabled, \* the "disable extended parameters" checkbox
  pc,                \* what has been computed for session_params
  base_financials,   \* the dict of calculate_financials(session_params)
  min_loan,          \* the minimum-loan computation's outcome
  bep,               \* the last calculate_bep call and its outcome
  irr,               \* the outcome of calculate_irr at the script's call site
  inputs_valid,      \* the script's inputs_valid: None before validate_inputs ran, then <<its result>>
  invoked,           \* the functions the run has called on session_params, in order
  tab,               \* what the break-even tab rendered
  last_pass,         \* the last pass over the share widgets: its inputs, shares before
  areas_call,        \* a calculate_areas call: its arguments and what it returned
  widgets            \* the sidebar's mode radio and storage-tariff input of the run

vars == <<shares, call, edits, session_params, extended_disabled, pc, base_financials,
          min_loan, bep, irr, inputs_valid, invoked, tab, last_pass, areas_call,
          widgets>>
shareVars == <<shares, call, edits>>
engineVars == <<session_params, extended_disabled, pc, base_financials, min_loan, bep, irr>>
scriptVars == <<inputs_valid, invoked, tab>>
passVars == <<last_pass>>
areaVars == <<areas_call>>
widgetVars == <<widgets>>

-----------------------------------------------------------------------------
(* Exact rational arithmetic standing for Python float arithmetic.         *)

RECURSIVE Gcd(_, _)
Gcd(a, b) == IF b = 0 THEN a ELSE Gcd(b, a % b)

Abs(x) == IF x < 0 THEN -x ELSE x

Q(n, d) ==
  LET g == Gcd(Abs(n), d) IN <<n \div g, d \div g>>

Zero == Q(0, 1)
One == Q(1, 1)
None == <<>>
IsNone(x) == x = <<>>

\* sums over the least common denominator and products with cross-cancelling,
\* which keeps the intermediate integers small
Add(a, b) ==
  LET g == Gcd(a[2], b[2])
  IN Q(a[1] * (b[2] \div g) + b[1] * (a[2] \div g), (a[2] \div g) * b[2])
Neg(a) == <<-a[1], a[2]>>
Sub(a, b) == Add(a, Neg(b))
Mul(a, b) ==
  LET g1 == Gcd(Abs(a[1]), b[2])
      g2 == Gcd(Abs(b[1]), a[2])
  IN Q((a[1] \div g1) * (b[1] \div g2), (a[2] \div g2) * (b[2] \div g1))
\* a / b for b # 0 (a zero divisor is Python's ZeroDivisionError: callers test it)
Div(a, b) ==
  IF b[1] > 0 THEN Mul(a, <<b[2], b[1]>>) ELSE Mul(a, <<-b[2], -b[1]>>)
Lt(a, b) ==
  LET g == Gcd(a[2], b[2])
  IN a[1] * (b[2] \div g) < b[1] * (a[2] \div g)
Le(a, b) ==
  LET g == Gcd(a[2], b[2])
  IN a[1] * (b[2] \div g) <= b[1] * (a[2] \div g)
IsZero(a) == a[1] = 0
IsPos(a) == a[1] > 0
IsNeg(a) == a[1] < 0
RAbs(a) == <<Abs(a[1]), a[2]>>
Sign(x) == IF x[1] > 0 THEN 1 ELSE IF x[1] < 0 THEN -1 ELSE 0
InUnit(x) == Le(Zero, x) /\ Le(x, One)

-----------------------------------------------------------------------------
(* ShareAllocator: st.session_state.shares and normalize_shares.           *)

\* the keys of st.session_state.shares, in the dict's insertion order
ShareKeys == <<"storage_share", "loan_share", "vip_share", "short_term_share">>
KeySet == {ShareKeys[i] : i \in 1..Len(ShareKeys)}

\* the shares a first run of the script puts into the session
InitialShares ==
  [k \in KeySet |->
     CASE k = "storage_share" -> Q(1, 2)
       [] k = "loan_share" -> Q(3, 10)
       [] k = "vip_share" -> Q(1, 10)
       [] OTHER -> Q(1, 10)]

RECURSIVE SumOver(_, _)
SumOver(f, S) ==
  IF S = {} THEN Zero
  ELSE LET k == CHOOSE x \in S : TRUE IN Add(f[k], SumOver(f, S \ {k}))

\* OtherKeys without the "> 0" filter of the list comprehension
OtherKeys_unfiltered(s, share_key) == {k \in KeySet : k # share_key}

\* other_keys: the keys other than share_key whose share is > 0, read after the
\* edited share was stored
OtherKeys(s, share_key) == {k \in KeySet : k # share_key /\ IsPos(s[k])}

\* normalize_shares splitting the remainder equally instead of proportionally
normalize_shares_equal(s, share_key, new_value) ==
  LET s1 == [s EXCEPT ![share_key] = new_value]
      other_keys == OtherKeys(s1, share_key)
  IN IF other_keys = {} THEN s1
     ELSE [k \in KeySet |->
             IF k \in other_keys
               THEN Div(Sub(One, new_value), Q(Cardinality(other_keys), 1))
               ELSE s1[k]]

\* normalize_shares putting the edited share back when there is no other key
\* to redistribute to
normalize_shares_restoring(s, share_key, new_value) ==
  LET total_shares == One
      s1 == [s EXCEPT ![share_key] = new_value]
      remaining == Sub(total_shares, new_value)
      other_keys == OtherKeys(s1, share_key)
      current_other_sum == SumOver(s1, other_keys)
      equal_share == Div(remaining, Q(Cardinality(other_keys), 1))
  IN IF other_keys = {} THEN s
     ELSE IF IsZero(current_other_sum)
       THEN [k \in KeySet |-> IF k \in other_keys THEN equal_share ELSE s1[k]]
     ELSE IF IsPos(current_other_sum)
       THEN [k \in KeySet |->
               IF k \in other_keys
                 THEN Mul(Div(s1[k], current_other_sum), remaining)
                 ELSE s1[k]]
     ELSE s1

\* the share mapping after normalize_shares(share_key, new_value) on mapping s
normalize_shares(s, share_key, new_value) ==
  LET total_shares == One
      s1 == [s EXCEPT ![share_key] = new_value]
      remaining == Sub(total_shares, new_value)
      other_keys == OtherKeys(s1, share_key)
      current_other_sum == SumOver(s1, other_keys)
      equal_share == Div(remaining, Q(Cardinality(other_keys), 1))
  IN IF other_keys = {} THEN s1
     ELSE IF IsZero(current_other_sum)
       THEN [k \in KeySet |-> IF k \in other_keys THEN equal_share ELSE s1[k]]
     ELSE IF IsPos(current_other_sum)
       THEN [k \in KeySet |->
               IF k \in other_keys
                 THEN Mul(Div(s1[k], current_other_sum), remaining)
                 ELSE s1[k]]
     ELSE s1

\* the branch normalize_shares(share_key, new_value) runs on mapping s: the
\* early return, the equal split, the proportional redistribution, or neither
\* of the two (no such case is left when other_keys holds shares > 0 only)
branch_taken(s, share_key, new_value) ==
  LET s1 == [s EXCEPT ![share_key] = new_value]
      other_keys == OtherKeys(s1, share_key)
      current_other_sum == SumOver(s1, other_keys)
  IN IF other_keys = {} THEN "return"
     ELSE IF IsZero(current_other_sum) THEN "equal"
     ELSE IF IsPos(current_other_sum) THEN "proportional"
     ELSE "neither"

\* the shares after the checkboxes of the disabled types set theirs to 0.0
disable_types(s, disabled) == [k \in KeySet |-> IF k \in disabled THEN Zero ELSE s[k]]

\* storage_options: the active keys, in the order the script appends them
RECURSIVE storage_options(_, _)
storage_options(keys, disabled) ==
  IF keys = <<>> THEN <<>>
  ELSE IF Head(keys) \in disabled THEN storage_options(Tail(keys), disabled)
  ELSE <<Head(keys)>> \o storage_options(Tail(keys), disabled)

\* What st.slider returns for share_key, as a share: the user's value v for
\* the slider the user moved; for another slider its value=current_share
\* (the share at that point of the loop, "fresh") or the value it showed when
\* the pass began ("stale"), as the widget is or is not re-created when its
\* default changes.  The percent shown is the share * 100, and the script
\* divides what the slider returns by 100.
slider_value(s, before, share_key, edited, v, others) ==
  IF share_key = edited THEN v
  ELSE IF others = "fresh" THEN Div(Mul(s[share_key], Q(100, 1)), Q(100, 1))
  ELSE Div(Mul(before[share_key], Q(100, 1)), Q(100, 1))

\* the loop over storage_options: normalize_shares(share_key, new_share / 100)
\* for each active key in order; gives the shares and the last call made
RECURSIVE slider_loop(_, _, _, _, _, _, _)
slider_loop(s, last_call, before, keys, edited, v, others) ==
  IF keys = <<>> THEN [shares |-> s, call |-> last_call]
  ELSE LET share_key == Head(keys)
           new_value == slider_value(s, before, share_key, edited, v, others)
       IN slider_loop(normalize_shares(s, share_key, new_value),
                      [key |-> share_key, value |-> new_value, before |-> s,
                       branch |-> branch_taken(s, share_key, new_value)],
                      before, Tail(keys), edited, v, others)

\* one pass of the automatic mode over the share widgets
automatic_pass(s, last_call, disabled, edited, v, others) ==
  slider_loop(disable_types(s, disabled), last_call, s,
              storage_options(ShareKeys, disabled), edited, v, others)

-----------------------------------------------------------------------------
(* SpaceModel and FinancialEngine.                                         *)

\* calculate_areas with the vip and short-term shares taken one for the other
calculate_areas_swapped(total_area, useful_area_ratio, shelves_per_m2, storage_share, loan_share, vip_share, short_term_share) ==
  LET useful_area == Mul(total_area, useful_area_ratio)
      double_shelf_area == Mul(Mul(useful_area, Q(2, 1)), shelves_per_m2)
  IN [storage_area |-> Mul(double_shelf_area, storage_share),
      loan_area |-> Mul(double_shelf_area, loan_share),
      vip_area |-> Mul(double_shelf_area, short_term_share),
      short_term_area |-> Mul(double_shelf_area, vip_share)]

\* calculate_areas without the doubling of the useful area
calculate_areas_single_shelf(total_area, useful_area_ratio, shelves_per_m2, storage_share, loan_share, vip_share, short_term_share) ==
  LET useful_area == Mul(total_area, useful_area_ratio)
      shelf_area == Mul(useful_area, shelves_per_m2)
  IN [storage_area |-> Mul(shelf_area, storage_share),
      loan_area |-> Mul(shelf_area, loan_share),
      vip_area |-> Mul(shelf_area, vip_share),
      short_term_area |-> Mul(shelf_area, short_term_share)]

\* calculate_areas: the four areas of the double-shelf area
calculate_areas(total_area, useful_area_ratio, shelves_per_m2, storage_share, loan_share, vip_share, short_term_share) ==
  LET useful_area == Mul(total_area, useful_area_ratio)
      double_shelf_area == Mul(Mul(useful_area, Q(2, 1)), shelves_per_m2)
  IN [storage_area |-> Mul(double_shelf_area, storage_share),
      loan_area |-> Mul(double_shelf_area, loan_share),
      vip_area |-> Mul(double_shelf_area, vip_share),
      short_term_area |-> Mul(double_shelf_area, short_term_share)]

\* the fields of WarehouseParams that calculate_financials reads
FieldsRead ==
  {"storage_area", "loan_area", "vip_area", "short_term_area",
   "storage_items_density", "loan_items_density", "vip_items_density",
   "short_term_items_density", "storage_fee", "loan_interest_rate",
   "average_item_value", "item_evaluation", "realization_share_storage",
   "realization_share_loan", "realization_share_vip",
   "realization_share_short_term", "item_realization_markup",
   "default_probability", "vip_extra_fee", "short_term_daily_rate",
   "marketing_expenses", "total_area", "rental_cost_per_m2", "salary_expense",
   "miscellaneous_expenses", "depreciation_expense", "insurance_expenses",
   "taxes", "one_time_expenses"}

\* the try block raises (TypeError) when a field it computes with is None
Faults(params) == \E f \in FieldsRead : IsNone(params[f])

Max(a, b) == IF Lt(a, b) THEN b ELSE a
Percent(x) == Div(x, Q(100, 1))

\* the rate used as it is given
clamped_rate_as_given(params) == params.loan_interest_rate

\* loan_interest_rate floored at 0, and the month's interest on the loans
clamped_rate(params) == Max(params.loan_interest_rate, Zero)
loan_amount(params) ==
  Mul(Mul(params.loan_area, params.average_item_value), params.item_evaluation)
loan_income_month(params) ==
  Mul(Mul(loan_amount(params), Percent(clamped_rate(params))), Q(30, 1))

\* realization income that does not depend on the area
realization_income_without_area(area, density, realization_share, params) ==
  Mul(Mul(Mul(density, realization_share), params.average_item_value),
      Percent(params.item_realization_markup))

\* realization income of one storage type
realization_income_of(area, density, realization_share, params) ==
  Mul(Mul(Mul(Mul(area, density), realization_share), params.average_item_value),
      Percent(params.item_realization_markup))

\* storage income computed from the wrong tariff field
storage_income_wrong_field(params) ==
  Mul(params.storage_area, params.short_term_daily_rate)

\* storage_income = storage_area * storage_fee
storage_income_of(params) == Mul(params.storage_area, params.storage_fee)

\* profit with the one-time expenses left out of what is subtracted
profit_without_one_time(params, total_income, total_expenses) ==
  Sub(total_income, Sub(total_expenses, params.one_time_expenses))

\* profit = total_income - total_expenses
profit_of(params, total_income, total_expenses) == Sub(total_income, total_expenses)

\* the names of the result dict
ResultFields ==
  {"total_income", "total_expenses", "profit", "realization_income",
   "storage_income", "loan_income_after_realization", "vip_income",
   "short_term_income", "marketing_income", "rental_expense",
   "monthly_expenses", "one_time_expenses", "salary_expense",
   "miscellaneous_expenses", "depreciation_expense", "marketing_expenses",
   "insurance_expenses", "taxes", "loan_interest_rate", "daily_storage_fee"}

\* the except branch's dict with one key forgotten
ZeroResult_missing_key == [f \in ResultFields \ {"daily_storage_fee"} |-> Zero]

\* the dict of the except branch
ZeroResult == [f \in ResultFields |-> Zero]

\* total income with the marketing income left out of the sum
total_income_without_marketing(storage_income, loan_income_after_realization, realization_income, vip_income, short_term_income, marketing_income) ==
  Add(Add(Add(Add(storage_income, loan_income_after_realization),
              realization_income), vip_income), short_term_income)

\* total_income: the sum of the six income components
total_income_of(storage_income, loan_income_after_realization, realization_income, vip_income, short_term_income, marketing_income) ==
  Add(Add(Add(Add(Add(storage_income, loan_income_after_realization),
                  realization_income), vip_income), short_term_income),
      marketing_income)

\* the dict the try block returns
financials_try(params) ==
  LET storage_income == storage_income_of(params)
      realization_income ==
        Add(Add(realization_income_of(params.storage_area, params.storage_items_density,
                                      params.realization_share_storage, params),
                realization_income_of(params.loan_area, params.loan_items_density,
                                      params.realization_share_loan, params)),
            Add(realization_income_of(params.vip_area, params.vip_items_density,
                                      params.realization_share_vip, params),
                realization_income_of(params.short_term_area,
                                      params.short_term_items_density,
                                      params.realization_share_short_term, params)))
      loan_income_after_realization ==
        Mul(Mul(loan_income_month(params), Sub(One, params.realization_share_loan)),
            Sub(One, params.default_probability))
      vip_income == Mul(params.vip_area, Add(params.storage_fee, params.vip_extra_fee))
      short_term_income ==
        Mul(Mul(params.short_term_area, params.short_term_daily_rate), Q(30, 1))
      marketing_income == Mul(params.marketing_expenses, Q(3, 2))
      total_income ==
        total_income_of(storage_income, loan_income_after_realization,
                        realization_income, vip_income, short_term_income,
                        marketing_income)
      rental_expense == Mul(params.total_area, params.rental_cost_per_m2)
      monthly_expenses ==
        Add(Add(Add(Add(Add(Add(rental_expense, params.salary_expense),
                            params.miscellaneous_expenses),
                        params.depreciation_expense), params.marketing_expenses),
                params.insurance_expenses), params.taxes)
      total_expenses == Add(monthly_expenses, params.one_time_expenses)
      profit == profit_of(params, total_income, total_expenses)
      daily_storage_fee == Div(params.storage_fee, Q(30, 1))
  IN [total_income |-> total_income,
      total_expenses |-> total_expenses,
      profit |-> profit,
      realization_income |-> realization_income,
      storage_income |-> storage_income,
      loan_income_after_realization |-> loan_income_after_realization,
      vip_income |-> vip_income,
      short_term_income |-> short_term_income,
      marketing_income |-> marketing_income,
      rental_expense |-> rental_expense,
      monthly_expenses |-> monthly_expenses,
      one_time_expenses |-> params.one_time_expenses,
      salary_expense |-> params.salary_expense,
      miscellaneous_expenses |-> params.miscellaneous_expenses,
      depreciation_expense |-> params.depreciation_expense,
      marketing_expenses |-> params.marketing_expenses,
      insurance_expenses |-> params.insurance_expenses,
      taxes |-> params.taxes,
      loan_interest_rate |-> clamped_rate(params),
      daily_storage_fee |-> daily_storage_fee]

\* calculate_financials: the try block's dict, or the zeroed dict on a fault
calculate_financials(params) ==
  IF Faults(params) THEN ZeroResult ELSE financials_try(params)

\* np.isclose(total, 1.0): |total - 1| <= atol + rtol * 1 = 1e-8 + 1e-5
IsCloseToOne(total) ==
  LET diff == Sub(total, One)
  IN IF diff[1] = 0 THEN TRUE
     ELSE (diff[2] * 1001) \div Abs(diff[1]) >= 100000000

\* validate_inputs: TRUE when the list of errors is empty
validate_inputs(params) ==
  /\ ~ Le(params.total_area, Zero)
  /\ ~ Le(params.rental_cost_per_m2, Zero)
  /\ ~ IsNeg(params.loan_interest_rate)
  /\ ~ IsNeg(params.storage_fee)
  /\ InUnit(params.useful_area_ratio)
  /\ \A k \in KeySet : InUnit(params[k])
  /\ ~ IsNeg(params.average_item_value)
  /\ ~ IsNeg(params.salary_expense)
  /\ ~ IsNeg(params.miscellaneous_expenses)
  /\ ~ IsNeg(params.depreciation_expense)
  /\ ~ IsNeg(params.one_time_setup_cost)
  /\ ~ IsNeg(params.one_time_equipment_cost)
  /\ ~ IsNeg(params.one_time_other_costs)
  /\ InUnit(params.default_probability)
  /\ ~ IsNeg(params.marketing_expenses)
  /\ ~ IsNeg(params.insurance_expenses)
  /\ ~ IsNeg(params.taxes)
  /\ IsCloseToOne(Add(Add(Add(params.storage_share, params.loan_share),
                          params.vip_share), params.short_term_share))

\* the branch taken when the extended parameters are on and the rate is > 0;
\* a zero divisor (default_probability = 1) is Python's ZeroDivisionError
min_loan_extended(params, financials) ==
  LET average_growth_factor ==
        Add(One, Mul(params.monthly_rent_growth, Div(params.time_horizon, Q(2, 1))))
      adjusted_daily_storage_fee ==
        Mul(financials.daily_storage_fee, average_growth_factor)
      divisor ==
        Mul(Mul(Percent(params.loan_interest_rate),
                Sub(One, params.default_probability)),
            params.liquidity_factor)
  IN IF IsZero(divisor)
       THEN [value |-> None, branch |-> "extended", divisions |-> 3,
             raised |-> "ZeroDivisionError"]
       ELSE [value |-> Mul(params.safety_factor,
                           Div(adjusted_daily_storage_fee, divisor)),
             branch |-> "extended", divisions |-> 3, raised |-> "none"]

\* the basic formula daily_storage_fee / (rate / 100)
min_loan_basic(params, financials) ==
  IF IsZero(Percent(params.loan_interest_rate))
    THEN [value |-> None, branch |-> "basic", divisions |-> 2,
          raised |-> "ZeroDivisionError"]
    ELSE [value |-> Div(financials.daily_storage_fee,
                        Percent(params.loan_interest_rate)),
          branch |-> "basic", divisions |-> 2, raised |-> "none"]

\* the minimum loan amount with the else branch missing its test of the rate
min_loan_amount_unguarded(params, financials, disable_extended) ==
  IF ~ disable_extended /\ IsPos(params.loan_interest_rate)
    THEN min_loan_extended(params, financials)
    ELSE min_loan_basic(params, financials)

\* the script's minimum loan amount: the value, the branch that produced it,
\* the divisions that branch executes, and the exception it raises, if any
min_loan_amount(params, financials, disable_extended) ==
  IF ~ disable_extended /\ IsPos(params.loan_interest_rate)
    THEN min_loan_extended(params, financials)
    ELSE IF IsPos(params.loan_interest_rate)
      THEN min_loan_basic(params, financials)
      ELSE [value |-> Zero, branch |-> "rate_zero", divisions |-> 0,
            raised |-> "none"]

-----------------------------------------------------------------------------
(* calculate_irr over numpy_financial.irr.                                 *)

\* A float result that is a number: its sign, and its value where the model
\* can state it exactly (None where the root is not rational in general).
Number(sign, percent) == [kind |-> "number", sign |-> sign, percent |-> percent]
\* the float nan
NaN == [kind |-> "nan", sign |-> 0, percent |-> None]

\* npf.irr([-initial_investment] + [profit] * n) * 100: the results the
\* library can give.  The rate is 1/x - 1 for the real root x > 0 of
\* -I + p*x + ... + p*x^n.  When -I and p have opposite strict signs there is
\* exactly one such root (one sign change); the rate is > 0, = 0 or < 0 as
\* n*p is above, at or below I, and it is p/I - 1 for n = 1.  When no real
\* root x > 0 exists the library returns nan, it does not raise.  Releases
\* differ on two series: for -I # 0 followed by zeros, nan or the rate -1; for
\* all zeros, nan or an IndexError out of the stripping of zeros.
irr_results(initial_investment, profit, n) ==
  LET total == Mul(profit, Q(n, 1))
      rate_sign == IF Sign(initial_investment) > 0
                     THEN Sign(Sub(total, initial_investment))
                     ELSE Sign(Sub(initial_investment, total))
      exact == IF n = 1
                 THEN Mul(Sub(Div(profit, initial_investment), One), Q(100, 1))
                 ELSE None
  IN IF IsZero(initial_investment) /\ IsZero(profit)
       THEN {NaN, [kind |-> "raised", sign |-> 0, percent |-> None]}
     ELSE IF IsZero(profit)
       THEN {NaN, Number(-1, Q(-100, 1))}
     ELSE IF IsZero(initial_investment) THEN {NaN}
     ELSE IF Sign(initial_investment) = Sign(profit)
       THEN {Number(rate_sign, exact)}
     ELSE {NaN}

\* calculate_irr(cash_flows, initial_investment) with cash_flows = [profit] * n:
\* what npf.irr gives, times 100, and 0.0 when npf.irr raised
calculate_irr(profit, n, initial_investment) ==
  {IF r.kind = "raised" THEN Number(0, Zero) ELSE r :
     r \in irr_results(initial_investment, profit, n)}

-----------------------------------------------------------------------------
(* BreakEvenSolver: calculate_bep over scipy.optimize.bisect.              *)

\* bisect(..., maxiter=100)
maxiter == 100
\* a coarser tolerance passed to bisect
xtol_coarse == Q(1, 1)
\* bisect(..., xtol=0.01)
xtol == Q(1, 100)

\* profit_at_param: the profit of a copy of params with param_key := value
profit_at_param(params, param_key, value) ==
  calculate_financials([params EXCEPT ![param_key] = value]).profit

\* the loop of scipy's bisect: halve dm, move xa to the midpoint when f keeps
\* fa's sign there, stop on a zero or once |dm| < xtol + rtol*|xm|.  rtol is
\* scipy's default 4*eps = 2^-50; rtol*|xm| is below 1e-11 for every xm of the
\* model while |dm| and xtol differ by at least 1e-7, so the term never decides
\* the comparison and is left out.
RECURSIVE bisect_loop(_, _, _, _, _, _)
bisect_loop(params, param_key, xa, dm, fa, i) ==
  IF i >= maxiter
    THEN [status |-> "CONVERR", x |-> xa, iterations |-> i]
    ELSE LET dm1 == Mul(dm, Q(1, 2))
             xm == Add(xa, dm1)
             fm == profit_at_param(params, param_key, xm)
         IN IF IsZero(fm) \/ Lt(RAbs(dm1), xtol)
              THEN [status |-> "CONVERGED", x |-> xm, iterations |-> i + 1]
              ELSE bisect_loop(params, param_key,
                               IF Sign(fm) * Sign(fa) >= 0 THEN xm ELSE xa,
                               dm1, fa, i + 1)

\* scipy.optimize.bisect(f, a, b): an endpoint where f is 0, a sign error when
\* f(a) and f(b) have the same sign, else the loop
bisect(params, param_key, a, b) ==
  LET fa == profit_at_param(params, param_key, a)
      fb == profit_at_param(params, param_key, b)
  IN IF IsZero(fa) THEN [status |-> "CONVERGED", x |-> a, iterations |-> 0]
     ELSE IF IsZero(fb) THEN [status |-> "CONVERGED", x |-> b, iterations |-> 0]
     ELSE IF Sign(fa) = Sign(fb) THEN [status |-> "SIGNERR", x |-> Zero, iterations |-> 0]
     ELSE bisect_loop(params, param_key, a, Sub(b, a), fa, 0)

\* calculate_bep answering the lower end of the range when the range holds no
\* sign change, instead of None
calculate_bep_guessing(param_key, base_value, params) ==
  LET lower == Mul(base_value, Q(1, 2))
      upper == Mul(base_value, Q(3, 2))
      r == bisect(params, param_key, lower, upper)
  IN IF IsNone(base_value)
       THEN [result |-> None, raised |-> "TypeError", bisect_called |-> FALSE,
             iterations |-> 0]
       ELSE [result |-> IF r.status = "CONVERGED" THEN r.x ELSE lower,
             raised |-> "none", bisect_called |-> TRUE, iterations |-> r.iterations]

\* calculate_bep without its test of the signs and without its try: what
\* bisect raises escapes
calculate_bep_untried(param_key, base_value, params) ==
  LET lower == Mul(base_value, Q(1, 2))
      upper == Mul(base_value, Q(3, 2))
      r == bisect(params, param_key, lower, upper)
  IN IF IsNone(base_value)
       THEN [result |-> None, raised |-> "TypeError", bisect_called |-> FALSE,
             iterations |-> 0]
     ELSE IF r.status = "CONVERGED"
       THEN [result |-> r.x, raised |-> "none", bisect_called |-> TRUE,
             iterations |-> r.iterations]
     ELSE [result |-> None,
           raised |-> IF r.status = "SIGNERR" THEN "ValueError" ELSE "RuntimeError",
           bisect_called |-> TRUE, iterations |-> r.iterations]

\* calculate_bep(param_key, base_value, calculate_financials, params): the
\* returned value (None: not found), the exception that escapes it (the range
\* is computed outside the try), whether bisect was called, and its iterations
calculate_bep(param_key, base_value, params) ==
  IF IsNone(base_value)
    THEN [result |-> None, raised |-> "TypeError", bisect_called |-> FALSE,
          iterations |-> 0]
    ELSE
      LET lower == Mul(base_value, Q(1, 2))
          upper == Mul(base_value, Q(3, 2))
          profit_low == profit_at_param(params, param_key, lower)
          profit_high == profit_at_param(params, param_key, upper)
          r == bisect(params, param_key, lower, upper)
      IN IF Sign(profit_low) * Sign(profit_high) > 0
           THEN [result |-> None, raised |-> "none", bisect_called |-> FALSE,
                 iterations |-> 0]
           ELSE IF r.status = "CONVERGED"
             THEN [result |-> r.x, raised |-> "none", bisect_called |-> TRUE,
                   iterations |-> r.iterations]
             \* ValueError (SIGNERR) and RuntimeError (CONVERR) are caught
             ELSE [result |-> None, raised |-> "none", bisect_called |-> TRUE,
                   iterations |-> r.iterations]

-----------------------------------------------------------------------------
(* SensitivityScanner: perform_sensitivity_analysis and the scan of the    *)
(* break-even tab.                                                         *)

\* np.linspace(..., 100)
ScanPoints == 100

\* np.linspace(start, stop, num): num values from start to stop, evenly spaced
linspace(start, stop, num) ==
  LET step == Div(Sub(stop, start), Q(num - 1, 1))
  IN [i \in 1..num |-> Add(start, Mul(Q(i - 1, 1), step))]

\* updated_params: a copy of params with param_key set to val
updated_params(params, param_key, val) == [params EXCEPT ![param_key] = val]

\* perform_sensitivity_analysis appending each row in front of the earlier ones
perform_sensitivity_analysis_reversed(params, param_key, param_range) ==
  [i \in 1..Len(param_range) |->
     [value |-> param_range[Len(param_range) + 1 - i],
      profit |-> calculate_financials(
                   updated_params(params, param_key,
                                  param_range[Len(param_range) + 1 - i])).profit]]

\* perform_sensitivity_analysis: one row (value, profit) per value of the range
perform_sensitivity_analysis(params, param_key, param_range) ==
  [i \in 1..Len(param_range) |->
     [value |-> param_range[i],
      profit |-> calculate_financials(updated_params(params, param_key,
                                                     param_range[i])).profit]]

\* the values the tab scans: 500..1500 for vip_extra_fee, else half to one and
\* a half times the parameter's current value
param_values(params, param_key) ==
  IF param_key = "vip_extra_fee"
    THEN linspace(Q(500, 1), Q(1500, 1), ScanPoints)
    ELSE linspace(Mul(params[param_key], Q(1, 2)), Mul(params[param_key], Q(3, 2)),
                  ScanPoints)

\* bep_row without the test of the previous row
bep_row_any_nonnegative(rows) ==
  {i \in 1..Len(rows) : ~ IsNeg(rows[i].profit)}

\* bep_row: the rows with profit >= 0 whose previous row has profit < 0 (the
\* first row has no previous row)
bep_row(rows) ==
  {i \in 2..Len(rows) : ~ IsNeg(rows[i].profit) /\ IsNeg(rows[i - 1].profit)}

\* bep_row.iloc[0]["Параметр"], None when bep_row is empty
first_crossing(rows) ==
  IF bep_row(rows) = {} THEN None
  ELSE rows[CHOOSE i \in bep_row(rows) : \A j \in bep_row(rows) : i <= j].value

-----------------------------------------------------------------------------
(* The sidebar's remaining-share progress bar and the manual mode's pass   *)
(* over the share inputs.                                                  *)

Min(a, b) == IF Lt(b, a) THEN b ELSE a

\* automatic mode: remaining_share is 1.0 when every type is disabled, else
\* 1 - sum(shares) clamped into [0, 1]; it is the argument of st.progress
remaining_share_automatic(s, disabled) ==
  IF Len(storage_options(ShareKeys, disabled)) = 0 THEN One
  ELSE Max(Min(Sub(One, SumOver(s, KeySet)), One), Zero)

\* manual mode: remaining_share is 1 - sum(shares) as it is; with every type
\* disabled no progress bar is drawn (None)
remaining_share_manual(s, disabled) ==
  IF Len(storage_options(ShareKeys, disabled)) = 0 THEN None
  ELSE Sub(One, SumOver(s, KeySet))

\* one pass of the manual mode: the disabled types' shares are set to 0.0,
\* then each active share becomes what its number_input returned / 100
manual_pass(s, disabled, manual_shares) ==
  LET zeroed == disable_types(s, disabled)
  IN IF Len(storage_options(ShareKeys, disabled)) = 0 THEN zeroed
     ELSE [k \in KeySet |-> IF k \in disabled THEN zeroed[k] ELSE manual_shares[k]]

-----------------------------------------------------------------------------
(* Bounds of the model.                                                    *)

\* number of normalize_shares calls followed from the initial shares
MaxEdits == 3

\* number of passes over the share widgets (script runs) followed
MaxPasses == 1
\* a pass is followed from shares whose denominators are at most this (the
\* model's integers are 32 bits wide)
MaxDenominator == 100

\* slider values passed as new_value, in percent (the slider runs 0..100)
SliderPercents == {0, 30, 50, 100}
SliderValues == {Q(p, 100) : p \in SliderPercents}
\* values of the slider the user moved in a pass over the share widgets
PassSliderValues == {Q(0, 1), Q(1, 2), Q(1, 1)}
\* values of a manual-mode share input (min_value=0.0, max_value=100.0), as
\* shares
ManualShareInputs == {Q(0, 1), Q(1, 4), Q(1, 1)}

-----------------------------------------------------------------------------
(* Specification Spec: the session's shares under a sequence of            *)
(* normalize_shares calls.                                                 *)

NoCall == [key |-> "none", value |-> None, before |-> InitialShares, branch |-> "none"]

EngineIdle ==
  /\ session_params = None
  /\ extended_disabled = FALSE
  /\ pc = "idle"
  /\ base_financials = None
  /\ min_loan = None
  /\ bep = None
  /\ irr = None

\* nothing validated, called or rendered yet
ScriptIdle ==
  /\ inputs_valid = None
  /\ invoked = <<>>
  /\ tab = None

\* no pass over the share widgets made yet
NoPass ==
  [number |-> 0, mode |-> "none", disabled |-> {}, edited |-> "none", value |-> None,
   others |-> "fresh", before |-> InitialShares, progress |-> None]
PassIdle == last_pass = NoPass
AreasIdle == areas_call = None
\* the sidebar's widgets not read yet
NoWidgets == [mode |-> "none", storage_fee |-> None]
WidgetsIdle == widgets = NoWidgets

Init ==
  /\ shares = InitialShares
  /\ call = NoCall
  /\ edits = 0
  /\ EngineIdle
  /\ ScriptIdle /\ PassIdle /\ AreasIdle /\ WidgetsIdle

NormalizeShares(share_key, new_value) ==
  /\ edits < MaxEdits
  /\ shares' = normalize_shares(shares, share_key, new_value)
  /\ call' = [key |-> share_key, value |-> new_value, before |-> shares,
              branch |-> branch_taken(shares, share_key, new_value)]
  /\ edits' = edits + 1
  /\ UNCHANGED <<engineVars, scriptVars, passVars, areaVars, widgetVars>>

Next == \E share_key \in KeySet, new_value \in SliderValues :
           NormalizeShares(share_key, new_value)

Spec == Init /\ [][Next]_vars

-----------------------------------------------------------------------------
(* Specification SpecEngine: a WarehouseParams object built from widget    *)
(* values as the script builds it, then calculate_financials, and after it *)
(* the minimum-loan computation or a calculate_bep call.                   *)

\* share mappings the session can hold: the initial one, the one after
\* normalize_shares("storage_share", 1.0), and all types disabled
ShareVectors ==
  {InitialShares,
   [k \in KeySet |-> IF k = "storage_share" THEN One ELSE Zero],
   [k \in KeySet |-> Zero]}

Modes == {"automatic", "manual"}
StorageFees == {Q(0, 1), Q(10, 1), Q(12, 1)}
LoanRates == {Q(0, 1), Q(1, 1)}
\* the widget has min_value=0.0; a caller of the engine other than the script's
\* widgets may pass a negative rate
LoanRatesOrNegative == LoanRates \cup {Q(-1, 1)}
VipExtraFees == {Q(0, 1), Q(4, 1)}
\* vip_extra_fee is Optional[float]: a caller of the engine other than the
\* script's widgets may leave it None
VipExtraFeesOrNone == VipExtraFees \cup {None}
ShortTermRates == {Q(0, 1), Q(1, 1)}
Salaries == {Q(0, 1), Q(80, 1), Q(83, 1)}
MarketingExpenses == {Q(0, 1), Q(2, 1)}
DefaultProbabilities == {Q(0, 1), Q(1, 1)}

\* the WarehouseParams the script builds: the constructor call, the sum of the
\* one-time costs, then the areas of calculate_areas merged in
BuildParams(s, mode, storage_fee, loan_interest_rate, vip_extra_fee, short_term_daily_rate, salary_expense, marketing_expenses, disable_extended, default_probability) ==
  LET total_area == Q(10, 1)
      useful_area_ratio == Q(1, 2)
      shelves_per_m2 == Q(1, 1)
      one_time_setup_cost == Q(2, 1)
      one_time_equipment_cost == Q(2, 1)
      one_time_other_costs == Q(1, 1)
      areas == calculate_areas(total_area, useful_area_ratio, shelves_per_m2,
                               s["storage_share"], s["loan_share"],
                               s["vip_share"], s["short_term_share"])
  IN [total_area |-> total_area,
      rental_cost_per_m2 |-> Q(1, 1),
      useful_area_ratio |-> useful_area_ratio,
      storage_share |-> s["storage_share"],
      loan_share |-> s["loan_share"],
      vip_share |-> s["vip_share"],
      short_term_share |-> s["short_term_share"],
      storage_fee |-> IF mode = "automatic" THEN storage_fee ELSE s["storage_share"],
      shelves_per_m2 |-> shelves_per_m2,
      short_term_daily_rate |-> short_term_daily_rate,
      item_evaluation |-> Q(4, 5),
      item_realization_markup |-> Q(20, 1),
      average_item_value |-> Q(10, 1),
      loan_interest_rate |-> loan_interest_rate,
      realization_share_storage |-> Q(1, 2),
      realization_share_loan |-> Q(1, 2),
      realization_share_vip |-> Q(1, 2),
      realization_share_short_term |-> Q(1, 2),
      salary_expense |-> salary_expense,
      miscellaneous_expenses |-> Q(1, 1),
      depreciation_expense |-> Q(1, 1),
      marketing_expenses |-> marketing_expenses,
      insurance_expenses |-> Q(1, 1),
      taxes |-> Q(2, 1),
      time_horizon |-> IF disable_extended THEN Q(1, 1) ELSE Q(6, 1),
      monthly_rent_growth |-> IF disable_extended THEN Zero ELSE Q(1, 100),
      default_probability |-> IF disable_extended THEN Zero ELSE default_probability,
      liquidity_factor |-> One,
      safety_factor |-> IF disable_extended THEN One ELSE Q(6, 5),
      storage_items_density |-> Q(1, 1),
      loan_items_density |-> Q(1, 1),
      vip_items_density |-> Q(1, 1),
      short_term_items_density |-> Q(1, 1),
      one_time_setup_cost |-> one_time_setup_cost,
      one_time_equipment_cost |-> one_time_equipment_cost,
      one_time_other_costs |-> one_time_other_costs,
      storage_area |-> areas.storage_area,
      loan_area |-> areas.loan_area,
      vip_area |-> areas.vip_area,
      short_term_area |-> areas.short_term_area,
      one_time_expenses |->
        Add(Add(one_time_setup_cost, one_time_equipment_cost), one_time_other_costs),
      vip_extra_fee |-> vip_extra_fee]

\* the parameters the break-even tab offers
TunableKeys ==
  {"storage_fee", "loan_interest_rate", "vip_extra_fee", "short_term_daily_rate"}

EngineInitWith(vip_extra_fees, loan_interest_rates) ==
  /\ shares = InitialShares
  /\ call = NoCall
  /\ edits = 0
  /\ \E s \in ShareVectors, mode \in Modes, storage_fee \in StorageFees,
        loan_interest_rate \in loan_interest_rates, vip_extra_fee \in vip_extra_fees,
        short_term_daily_rate \in ShortTermRates, salary_expense \in Salaries,
        marketing_expenses \in MarketingExpenses, disable_extended \in BOOLEAN,
        default_probability \in DefaultProbabilities :
       /\ session_params = BuildParams(s, mode, storage_fee, loan_interest_rate,
                               vip_extra_fee, short_term_daily_rate, salary_expense,
                               marketing_expenses, disable_extended,
                               default_probability)
       /\ extended_disabled = disable_extended
  /\ pc = "params"
  /\ base_financials = None
  /\ min_loan = None
  /\ bep = None
  /\ irr = None
  /\ ScriptIdle /\ PassIdle /\ AreasIdle /\ WidgetsIdle

CalculateFinancials ==
  /\ pc = "params"
  /\ base_financials' = calculate_financials(session_params)
  /\ pc' = "financials"
  /\ UNCHANGED <<shareVars, session_params, extended_disabled, min_loan, bep, irr>>
  /\ UNCHANGED <<scriptVars, passVars, areaVars, widgetVars>>

\* the script computes the minimum loan amount only when inputs_valid
MinLoanAmount ==
  /\ pc = "financials"
  /\ validate_inputs(session_params)
  /\ min_loan' = min_loan_amount(session_params, base_financials, extended_disabled)
  /\ pc' = "min_loan"
  /\ UNCHANGED <<shareVars, session_params, extended_disabled, base_financials, bep, irr>>
  /\ UNCHANGED <<scriptVars, passVars, areaVars, widgetVars>>

\* the break-even tab's call: base_value is the parameter's current value
CalculateBep(param_key) ==
  /\ pc = "financials"
  /\ bep' = [param_key |-> param_key, base_value |-> session_params[param_key],
             out |-> calculate_bep(param_key, session_params[param_key], session_params)]
  /\ pc' = "bep"
  /\ UNCHANGED <<shareVars, session_params, extended_disabled, base_financials, min_loan, irr>>
  /\ UNCHANGED <<scriptVars, passVars, areaVars, widgetVars>>

\* a caller validating the parameters instead of computing with them
CheckInputs ==
  /\ pc = "params"
  /\ inputs_valid' = <<validate_inputs(session_params)>>
  /\ invoked' = Append(invoked, "validate_inputs")
  /\ pc' = "checked"
  /\ UNCHANGED <<shareVars, session_params, extended_disabled, base_financials, min_loan, bep, irr, tab>>
  /\ UNCHANGED <<passVars, areaVars, widgetVars>>

\* the script's call: cash_flows = [profit] * time_horizon and
\* initial_investment = one_time_expenses
CalculateIrr ==
  /\ pc = "financials"
  /\ irr' \in calculate_irr(base_financials.profit, session_params.time_horizon[1],
                            session_params.one_time_expenses)
  /\ pc' = "irr"
  /\ UNCHANGED <<shareVars, session_params, extended_disabled, base_financials, min_loan, bep>>
  /\ UNCHANGED <<scriptVars, passVars, areaVars, widgetVars>>

EngineNext ==
  \/ CalculateFinancials
  \/ MinLoanAmount
  \/ CalculateIrr
  \/ CheckInputs
  \/ \E param_key \in TunableKeys : CalculateBep(param_key)

\* parameters as the script's widgets produce them
EngineInit == EngineInitWith(VipExtraFees, LoanRates)
SpecEngine == EngineInit /\ [][EngineNext]_vars

\* parameters as any caller of the engine's functions may pass them
DirectInit == EngineInitWith(VipExtraFeesOrNone, LoanRatesOrNegative)
SpecDirect == DirectInit /\ [][EngineNext]_vars

-----------------------------------------------------------------------------
(* Specification SpecScript: one run of the script from the sidebar's      *)
(* construction of the parameters to the break-even tab.                   *)

\* the widget values of the runs followed; the salary of 1000 puts the zero of
\* profit inside the tab's vip_extra_fee scan
ScriptStorageFees == {Q(10, 1)}
ScriptShortTermRates == {Q(1, 1)}
ScriptSalaries == {Q(83, 1), Q(1000, 1)}
ScriptMarketingExpenses == {Q(2, 1)}

ScriptInit ==
  /\ shares = InitialShares
  /\ call = NoCall
  /\ edits = 0
  /\ EngineIdle
  /\ ScriptIdle /\ PassIdle /\ AreasIdle /\ WidgetsIdle

\* the sidebar builds the parameters, calculate_areas included, and stores
\* them in the session
BuildSessionParams ==
  /\ pc = "idle"
  /\ \E s \in ShareVectors, mode \in Modes, storage_fee \in ScriptStorageFees,
        loan_interest_rate \in LoanRates, vip_extra_fee \in VipExtraFees,
        short_term_daily_rate \in ScriptShortTermRates,
        salary_expense \in ScriptSalaries,
        marketing_expenses \in ScriptMarketingExpenses, disable_extended \in BOOLEAN,
        default_probability \in DefaultProbabilities :
       /\ session_params' = BuildParams(s, mode, storage_fee, loan_interest_rate,
                               vip_extra_fee, short_term_daily_rate, salary_expense,
                               marketing_expenses, disable_extended,
                               default_probability)
       /\ extended_disabled' = disable_extended
       /\ widgets' = [mode |-> mode, storage_fee |-> storage_fee]
  /\ invoked' = Append(invoked, "calculate_areas")
  /\ pc' = "built"
  /\ UNCHANGED <<shareVars, base_financials, min_loan, bep, irr, inputs_valid, tab>>
  /\ UNCHANGED <<passVars, areaVars>>

\* inputs_valid = validate_inputs(params)
ValidateInputs ==
  /\ pc = "built"
  /\ inputs_valid' = <<validate_inputs(session_params)>>
  /\ invoked' = Append(invoked, "validate_inputs")
  /\ pc' = "validated"
  /\ UNCHANGED <<shareVars, session_params, extended_disabled, base_financials, min_loan, bep, irr, tab>>
  /\ UNCHANGED <<passVars, areaVars, widgetVars>>

\* if inputs_valid is False the main part computes nothing
SkipComputation ==
  /\ pc = "validated"
  /\ inputs_valid = <<FALSE>>
  /\ pc' = "skipped"
  /\ UNCHANGED <<shareVars, session_params, extended_disabled, base_financials, min_loan, bep, irr>>
  /\ UNCHANGED <<scriptVars, passVars, areaVars, widgetVars>>

\* calculate_items, then base_financials = calculate_financials(params)
ComputeBase ==
  /\ pc = "validated"
  /\ inputs_valid = <<TRUE>>
  /\ base_financials' = calculate_financials(session_params)
  /\ invoked' = invoked \o <<"calculate_items", "calculate_financials">>
  /\ pc' = "computed"
  /\ UNCHANGED <<shareVars, session_params, extended_disabled, min_loan, bep, irr, inputs_valid, tab>>
  /\ UNCHANGED <<passVars, areaVars, widgetVars>>

\* the additional metrics, ROI and IRR
ComputeMetrics ==
  /\ pc = "computed"
  /\ irr' \in calculate_irr(base_financials.profit, session_params.time_horizon[1],
                            session_params.one_time_expenses)
  /\ pc' = "metrics"
  /\ UNCHANGED <<shareVars, session_params, extended_disabled, base_financials, min_loan, bep>>
  /\ UNCHANGED <<scriptVars, passVars, areaVars, widgetVars>>

\* the minimum loan amount; an exception out of it ends the run
ComputeMinLoan ==
  /\ pc = "metrics"
  /\ min_loan' = min_loan_amount(session_params, base_financials, extended_disabled)
  /\ pc' = IF min_loan'.raised = "none" THEN "loan" ELSE "crashed"
  /\ UNCHANGED <<shareVars, session_params, extended_disabled, base_financials, bep, irr>>
  /\ UNCHANGED <<scriptVars, passVars, areaVars, widgetVars>>

\* the break-even tab for the parameter chosen in its select boxes:
\* calculate_bep, the scan, the first crossing, and the tab's write of the
\* crossing into the session's vip_extra_fee
RenderBepTab(param_key) ==
  LET values == param_values(session_params, param_key)
      rows == perform_sensitivity_analysis(session_params, param_key, values)
      bep_value == first_crossing(rows)
  IN /\ pc = "loan"
     /\ bep' = [param_key |-> param_key, base_value |-> session_params[param_key],
                out |-> calculate_bep(param_key, session_params[param_key],
                                      session_params)]
     /\ tab' = [param_key |-> param_key, params_before |-> session_params,
                values |-> values, rows |-> rows, bep_value |-> bep_value]
     /\ session_params' =
          IF ~ IsNone(bep_value) /\ param_key = "vip_extra_fee"
            THEN [session_params EXCEPT !.vip_extra_fee = bep_value]
            ELSE session_params
     /\ pc' = "tab"
     /\ UNCHANGED <<shareVars, extended_disabled, base_financials, min_loan, irr, inputs_valid, invoked>>
     /\ UNCHANGED <<passVars, areaVars, widgetVars>>

ScriptNext ==
  \/ BuildSessionParams
  \/ ValidateInputs
  \/ SkipComputation
  \/ ComputeBase
  \/ ComputeMetrics
  \/ ComputeMinLoan
  \/ \E param_key \in TunableKeys : RenderBepTab(param_key)

SpecScript == ScriptInit /\ [][ScriptNext]_vars

-----------------------------------------------------------------------------
(* Specification SpecAreas: calculate_areas on arguments of any caller,    *)
(* then calculate_financials on parameters carrying the returned areas.    *)

TotalAreas == {Q(1, 1), Q(10, 1), Q(250, 1)}
UsefulAreaRatios == {Q(0, 1), Q(2, 5), Q(1, 2), Q(1, 1)}
ShelvesPerM2 == {Q(1, 1), Q(3, 1)}
\* share mappings of the session, and two that do not sum to 1 (manual input,
\* any caller)
AreaShareVectors ==
  ShareVectors \cup
    {[k \in KeySet |-> Q(1, 2)],
     [k \in KeySet |-> IF k = "short_term_share" THEN Q(1, 4) ELSE Q(1, 3)]}
AreaStorageFees == {Q(10, 1), Q(1500, 1)}

AreasInit ==
  /\ shares = InitialShares
  /\ call = NoCall
  /\ edits = 0
  /\ session_params = None
  /\ extended_disabled = FALSE
  /\ pc = "areas_args"
  /\ base_financials = None
  /\ min_loan = None
  /\ bep = None
  /\ irr = None
  /\ ScriptIdle /\ PassIdle /\ WidgetsIdle
  /\ \E total_area \in TotalAreas, useful_area_ratio \in UsefulAreaRatios,
        shelves_per_m2 \in ShelvesPerM2, s \in AreaShareVectors :
       areas_call = [total_area |-> total_area,
                     useful_area_ratio |-> useful_area_ratio,
                     shelves_per_m2 |-> shelves_per_m2, s |-> s, out |-> None]

\* areas = calculate_areas(...)
CalculateAreas ==
  /\ pc = "areas_args"
  /\ areas_call' =
       [areas_call EXCEPT !.out =
          calculate_areas(areas_call.total_area, areas_call.useful_area_ratio,
                          areas_call.shelves_per_m2, areas_call.s["storage_share"],
                          areas_call.s["loan_share"], areas_call.s["vip_share"],
                          areas_call.s["short_term_share"])]
  /\ pc' = "areas"
  /\ UNCHANGED <<shareVars, session_params, extended_disabled, base_financials, min_loan, bep, irr>>
  /\ UNCHANGED <<scriptVars, passVars, widgetVars>>

\* WarehouseParams(**{**vars(params), **areas}): params with the areas merged in
with_areas(params, a) ==
  [params EXCEPT !.storage_area = a.storage_area, !.loan_area = a.loan_area,
                 !.vip_area = a.vip_area, !.short_term_area = a.short_term_area]

\* calculate_financials on parameters of the call's sizes and shares with the
\* returned areas merged in
FinancialsOnAreas(storage_fee) ==
  LET built == BuildParams(areas_call.s, "automatic", storage_fee, Q(1, 1), Q(4, 1),
                           Q(1, 1), Q(83, 1), Q(2, 1), FALSE, Zero)
      sized == [built EXCEPT !.total_area = areas_call.total_area,
                             !.useful_area_ratio = areas_call.useful_area_ratio,
                             !.shelves_per_m2 = areas_call.shelves_per_m2]
  IN /\ pc = "areas"
     /\ session_params' = with_areas(sized, areas_call.out)
     /\ base_financials' = calculate_financials(session_params')
     /\ pc' = "areas_financials"
     /\ UNCHANGED <<shareVars, extended_disabled, min_loan, bep, irr>>
     /\ UNCHANGED <<scriptVars, passVars, areaVars, widgetVars>>

AreasNext ==
  \/ CalculateAreas
  \/ \E storage_fee \in AreaStorageFees : FinancialsOnAreas(storage_fee)

SpecAreas == AreasInit /\ [][AreasNext]_vars

-----------------------------------------------------------------------------
(* Specification SpecAuto: the session's shares under runs of the script   *)
(* in automatic mode.                                                      *)

\* One run's pass over the share widgets in automatic mode: the types ticked
\* as disabled, the slider the user moved (or none) and its value, and what
\* the other sliders report.
AutomaticPass(disabled, edited, v, others) ==
  LET out == automatic_pass(shares, call, disabled, edited, v, others)
  IN /\ last_pass.number < MaxPasses
     /\ \A k \in KeySet : shares[k][2] <= MaxDenominator
     /\ edited \in (KeySet \ disabled) \cup {"none"}
     /\ edited = "none" => v = None
     /\ edited # "none" => v # None
     /\ shares' = out.shares
     /\ call' = out.call
     /\ edits' = edits + Len(storage_options(ShareKeys, disabled))
     /\ last_pass' = [number |-> last_pass.number + 1, mode |-> "automatic",
                      disabled |-> disabled, edited |-> edited, value |-> v,
                      others |-> others, before |-> shares,
                      progress |-> remaining_share_automatic(out.shares, disabled)]
     /\ UNCHANGED <<engineVars, scriptVars, areaVars, widgetVars>>

AutoNext ==
  \E disabled \in SUBSET KeySet, edited \in KeySet \cup {"none"},
     v \in PassSliderValues \cup {None}, others \in {"fresh", "stale"} :
    AutomaticPass(disabled, edited, v, others)

SpecAuto == Init /\ [][AutoNext]_vars

-----------------------------------------------------------------------------
(* Specification SpecPasses: the session's shares under runs of the script *)
(* in either mode.                                                         *)

\* One run's pass over the share widgets in manual mode: the types ticked as
\* disabled and what the number_input of each active type returns.
ManualPass(disabled, manual_shares) ==
  LET out == manual_pass(shares, disabled, manual_shares)
  IN /\ last_pass.number < MaxPasses
     /\ \A k \in disabled : manual_shares[k] = Zero
     /\ shares' = out
     /\ last_pass' = [number |-> last_pass.number + 1, mode |-> "manual",
                      disabled |-> disabled, edited |-> "none", value |-> None,
                      others |-> "fresh", before |-> shares,
                      progress |-> remaining_share_manual(out, disabled)]
     /\ UNCHANGED <<call, edits, engineVars, scriptVars, areaVars, widgetVars>>

ManualNext ==
  \E disabled \in SUBSET KeySet, manual_shares \in [KeySet -> ManualShareInputs] :
    ManualPass(disabled, manual_shares)

PassesNext ==
  \/ AutoNext
  \/ ManualNext

SpecPasses == Init /\ [][PassesNext]_vars

-----------------------------------------------------------------------------
(* Claims about the ShareAllocator, checked under Spec.                    *)

\* |x| <= 1e-9, computed without leaving 32-bit integers
Within1e9(x) == IF x[1] = 0 THEN TRUE ELSE x[2] \div Abs(x[1]) >= 1000000000

Called == call.key # "none"

\* C1: after any sequence of normalize_shares(key, v) calls with v in [0,1]
\* from the initial shares, the four shares sum to 1.0 within 1e-9 and each
\* share lies in [0,1].
C1_SumIsOne ==
  /\ Within1e9(Sub(SumOver(shares, KeySet), One))
  /\ \A k \in KeySet : InUnit(shares[k])

\* C2: a share that is 0 before normalize_shares(j, v), j another key, is
\* still 0 after the call.
C2_ZeroStaysZero ==
  Called =>
    \A k \in KeySet :
      (k # call.key /\ IsZero(call.before[k])) => IsZero(shares[k])

\* a call that redistributed mass among the others while a third share was 0
C2_Witness ==
  /\ Called
  /\ \E k \in KeySet : k # call.key /\ IsZero(call.before[k]) /\ IsZero(shares[k])
  /\ \E j \in KeySet : j # call.key /\ shares[j] # call.before[j]

\* the other keys that were > 0 when the call was made
OthersBefore == {k \in KeySet : k # call.key /\ IsPos(call.before[k])}

\* C3: after normalize_shares(k, v) with some other share > 0, shares[k] = v
\* and every other share i that was > 0 is old_i / sum_others * (1 - v), so
\* untouched positive shares keep their ratios.
C3_Proportional ==
  (Called /\ OthersBefore # {}) =>
    LET sum_others == SumOver(call.before, OthersBefore)
        remaining == Sub(One, call.value)
    IN /\ shares[call.key] = call.value
       /\ \A i \in OthersBefore :
            shares[i] = Mul(Div(call.before[i], sum_others), remaining)
       /\ \A i, j \in OthersBefore :
            Mul(shares[i], call.before[j]) = Mul(shares[j], call.before[i])

\* a call that rescaled two unequal positive shares to new positive values
C3_Witness ==
  /\ Called
  /\ \E i, j \in OthersBefore :
       /\ i # j
       /\ call.before[i] # call.before[j]
       /\ shares[i] # call.before[i]
       /\ IsPos(shares[i]) /\ IsPos(shares[j])

-----------------------------------------------------------------------------
(* Claims about the BreakEvenSolver, checked under SpecEngine.             *)

BepDone == pc = "bep" /\ bep.out.raised = "none"
BepLower == Mul(bep.base_value, Q(1, 2))
BepUpper == Mul(bep.base_value, Q(3, 2))
\* the profit of session_params with the solved parameter set to value
ProfitAt(value) == calculate_financials([session_params EXCEPT ![bep.param_key] = value]).profit
SameStrictSign == Sign(ProfitAt(BepLower)) * Sign(ProfitAt(BepUpper)) = 1
OppositeSigns == Sign(ProfitAt(BepLower)) * Sign(ProfitAt(BepUpper)) = -1
Found == ~ IsNone(bep.out.result)

\* C4: calculate_bep returns None whenever the profits at 0.5*base_value and
\* 1.5*base_value are both strictly positive or both strictly negative.
C4_SameSignNotFound ==
  (BepDone /\ SameStrictSign) => ~ Found

\* both profits strictly negative at a non-zero base value, and None returned
C4_Witness ==
  /\ BepDone /\ SameStrictSign
  /\ IsNeg(ProfitAt(BepLower)) /\ IsPos(bep.base_value)
  /\ ~ Found

\* C5 as stated: with opposite signs at the ends, the returned v satisfies
\* lower <= v <= upper and |profit(v)| < 0.01.
C5_ProfitBelowTolerance ==
  (BepDone /\ OppositeSigns) =>
    /\ Found
    /\ Le(BepLower, bep.out.result) /\ Le(bep.out.result, BepUpper)
    /\ Lt(RAbs(ProfitAt(bep.out.result)), Q(1, 100))

\* C5 amended: with opposite signs at the ends, the returned v satisfies
\* lower <= v <= upper and profit has a zero within 0.01 of v on the parameter
\* axis: profit(v - 0.01) and profit(v + 0.01) do not have the same strict sign.
C5_RootWithinTolerance ==
  (BepDone /\ OppositeSigns) =>
    /\ Found
    /\ Le(BepLower, bep.out.result) /\ Le(bep.out.result, BepUpper)
    /\ Sign(ProfitAt(Sub(bep.out.result, Q(1, 100))))
         * Sign(ProfitAt(Add(bep.out.result, Q(1, 100)))) <= 0

\* a bisection that ran its loop and stopped on the tolerance, off the zero
C5_Witness ==
  /\ BepDone /\ OppositeSigns /\ Found
  /\ bep.out.iterations > 1
  /\ ~ IsZero(ProfitAt(bep.out.result))

\* C6: with base_value = 0, calculate_bep returns None for every parameter
\* set and does not call the bisection search.
C6_ZeroBaseNotFound ==
  (BepDone /\ IsZero(bep.base_value)) =>
    (~ Found /\ ~ bep.out.bisect_called)

-----------------------------------------------------------------------------
(* Claims about the FinancialEngine, checked under SpecEngine.             *)

Computed == pc \notin {"params", "checked"}

\* C7: in every result of calculate_financials, on the normal path and on
\* the zeroed fault path, profit = total_income - total_expenses.
C7_ProfitIsIncomeMinusExpenses ==
  Computed =>
    base_financials.profit =
      Sub(base_financials.total_income, base_financials.total_expenses)

\* a normal-path result with income, one-time expenses and a loss
C7_Witness ==
  /\ Computed /\ ~ Faults(session_params)
  /\ IsPos(base_financials.total_income)
  /\ IsPos(base_financials.one_time_expenses)
  /\ IsNeg(base_financials.profit)

\* the result for session_params with storage_fee replaced by fee
WithFee(fee) == calculate_financials([session_params EXCEPT !.storage_fee = fee])
HigherFees == {fee \in StorageFees : Lt(session_params.storage_fee, fee)}

\* C8 as stated: for fee1 < fee2 and all else equal, storage_income and
\* total_income are strictly greater at fee2 and profit is not smaller, for
\* every value of the other fields (read here on the non-faulting results).
C8_StrictlyMonotone ==
  (Computed /\ ~ Faults(session_params)) =>
    \A fee \in HigherFees :
      /\ Lt(base_financials.storage_income, WithFee(fee).storage_income)
      /\ Lt(base_financials.total_income, WithFee(fee).total_income)
      /\ Le(base_financials.profit, WithFee(fee).profit)

\* C8 amended: for fee1 < fee2 and all else equal, storage_income, total_income
\* and profit are not smaller at fee2; storage_income and total_income are
\* strictly greater when storage_area > 0 and the computation does not fault.
C8_Monotone ==
  Computed =>
    \A fee \in HigherFees :
      /\ Le(base_financials.storage_income, WithFee(fee).storage_income)
      /\ Le(base_financials.total_income, WithFee(fee).total_income)
      /\ Le(base_financials.profit, WithFee(fee).profit)
      /\ (IsPos(session_params.storage_area) /\ ~ Faults(session_params)) =>
           /\ Lt(base_financials.storage_income, WithFee(fee).storage_income)
           /\ Lt(base_financials.total_income, WithFee(fee).total_income)

\* a computed result with a higher fee to compare with and storage_area > 0
C8_Witness ==
  /\ Computed /\ ~ Faults(session_params)
  /\ HigherFees # {}
  /\ IsPos(session_params.storage_area)
  /\ IsPos(session_params.storage_fee)

\* C9: calculate_financials always returns a dict with the result's named
\* fields; on an internal fault every one of them is 0.
C9_FaultGivesZeroResult ==
  Computed =>
    /\ DOMAIN base_financials = ResultFields
    /\ Faults(session_params) => \A f \in ResultFields : base_financials[f] = Zero

\* a fault (vip_extra_fee is None) on parameters whose normal result is not zero
C9_Witness ==
  /\ Computed /\ Faults(session_params)
  /\ IsPos(session_params.salary_expense)
  /\ IsPos(session_params.storage_area) /\ IsPos(session_params.storage_fee)
  /\ base_financials.total_expenses = Zero

\* C10: with loan_interest_rate = 0 the month's loan income and
\* loan_income_after_realization are 0 whatever loan_area is, and the minimum
\* loan amount is 0 by the rate-is-zero branch, with no division executed,
\* whether the extended parameters are enabled or disabled.
C10_ZeroRate ==
  (Computed /\ IsZero(session_params.loan_interest_rate)) =>
    /\ Faults(session_params) \/ loan_income_month(session_params) = Zero
    /\ base_financials.loan_income_after_realization = Zero
    /\ pc = "min_loan" =>
         /\ min_loan.raised = "none"
         /\ min_loan.value = Zero
         /\ min_loan.branch = "rate_zero"
         /\ min_loan.divisions = 0

\* the minimum loan amount computed at rate 0 with a loan area, extended
\* parameters enabled
C10_Witness ==
  /\ pc = "min_loan"
  /\ IsZero(session_params.loan_interest_rate)
  /\ IsPos(session_params.loan_area)
  /\ ~ extended_disabled
  /\ min_loan.value = Zero

-----------------------------------------------------------------------------
(* Claims about the minimum-loan computation, checked under SpecEngine.    *)

\* C11: for every parameter set accepted by validate_inputs
\* (default_probability anywhere in [0,1], loan_interest_rate >= 0,
\* liquidity_factor > 0) the minimum-loan computation produces a numeric
\* value and raises no division-by-zero error.
C11_NoUncaughtFault ==
  pc = "min_loan" =>
    /\ validate_inputs(session_params)
    /\ min_loan.raised = "none"
    /\ ~ IsNone(min_loan.value)

-----------------------------------------------------------------------------
(* Claims about calculate_irr, checked under SpecEngine.                   *)

IrrDone == pc = "irr"
\* the cash-flow series -initial_investment, profit, ..., profit has no sign change
NoSignChange ==
  ~ (IsPos(session_params.one_time_expenses) /\ IsPos(base_financials.profit))
  /\ ~ (IsNeg(session_params.one_time_expenses) /\ IsNeg(base_financials.profit))

\* C18: calculate_irr returns 0 whenever the cash-flow series has no sign
\* change (or the solver fails), and never returns nan.
C18_ZeroNeverNaN ==
  IrrDone =>
    /\ irr.kind # "nan"
    /\ NoSignChange => (irr.kind = "number" /\ irr.percent = Zero)

-----------------------------------------------------------------------------
(* Claims about a run of the script, checked under SpecScript.             *)

\* the functions of the engine
EngineFunctions == {"calculate_areas", "calculate_items", "calculate_financials"}

\* C12: validation precedes all engine computation, and no engine function
\* is invoked on a parameter set for which validate_inputs returns False.
C12_ValidationFirst ==
  /\ \A i \in 1..Len(invoked) :
       invoked[i] \in EngineFunctions =>
         \E j \in 1..(i - 1) : invoked[j] = "validate_inputs"
  /\ inputs_valid = <<FALSE>> =>
       \A i \in 1..Len(invoked) : invoked[i] \notin EngineFunctions

\* the fields in which two parameter objects differ
FieldsChanged(p1, p2) == {f \in DOMAIN p1 : p1[f] # p2[f]}

\* C14: every what-if evaluation works on a clone that differs from the base
\* parameters in at most the overridden field, and the session's parameters
\* are field for field what they were once the break-even tab has rendered,
\* for each of the four tunable parameters.
C14_BaseUnchanged ==
  pc = "tab" =>
    /\ \A i \in 1..Len(tab.rows) :
         FieldsChanged(tab.params_before,
                       updated_params(tab.params_before, tab.param_key,
                                      tab.rows[i].value)) \subseteq {tab.param_key}
    /\ session_params = tab.params_before

-----------------------------------------------------------------------------
(* Claims about a negative loan_interest_rate, checked under SpecDirect.   *)

NegativeRate == IsNeg(session_params.loan_interest_rate)
Checked == pc = "checked"
\* loan income 0 and the reported rate 0
ComputedAtRateZero ==
  /\ base_financials.loan_income_after_realization = Zero
  /\ base_financials.loan_interest_rate = Zero

\* C13 as stated: a parameter set whose loan_interest_rate is negative is
\* accepted by validation, and the engine computes with the rate clamped to 0.
C13_NegativeRateAccepted ==
  NegativeRate =>
    /\ Checked => inputs_valid = <<TRUE>>
    /\ Computed => ComputedAtRateZero

\* C13 amended: validate_inputs rejects a parameter set whose
\* loan_interest_rate is negative; calculate_financials called on such a set
\* computes with the rate clamped to 0 (loan income 0, reported rate 0).
C13_NegativeRateRejected ==
  NegativeRate =>
    /\ Checked => inputs_valid = <<FALSE>>
    /\ Computed => ComputedAtRateZero

\* a negative rate computed with, on parameters whose loan income would not be
\* 0 at the rate as given, and whose only validation error is the rate
C13_Witness ==
  /\ NegativeRate /\ Computed /\ ~ Faults(session_params)
  /\ IsPos(session_params.loan_area)
  /\ ~ IsZero(Sub(One, session_params.default_probability))
  /\ validate_inputs([session_params EXCEPT !.loan_interest_rate = Zero])
  /\ ComputedAtRateZero

-----------------------------------------------------------------------------
(* Claims about all storage types disabled, checked under SpecEngine.      *)

AllSharesZero == \A k \in KeySet : IsZero(session_params[k])

\* params with the share mapping s and the areas calculate_areas gives for it
WithShares(params, s) ==
  LET a == calculate_areas(params.total_area, params.useful_area_ratio,
                           params.shelves_per_m2, s["storage_share"],
                           s["loan_share"], s["vip_share"], s["short_term_share"])
  IN [params EXCEPT !.storage_share = s["storage_share"],
                    !.loan_share = s["loan_share"],
                    !.vip_share = s["vip_share"],
                    !.short_term_share = s["short_term_share"],
                    !.storage_area = a.storage_area,
                    !.loan_area = a.loan_area,
                    !.vip_area = a.vip_area,
                    !.short_term_area = a.short_term_area]

\* C15: with all four shares 0 (so all four areas 0), total_income is
\* marketing_income = 1.5 * marketing_expenses, total_expenses is what it is
\* for the same parameters with non-zero shares, and profit < 0 whenever
\* marketing_income < monthly_expenses + one_time_expenses.
C15_AllSharesZero ==
  (Computed /\ AllSharesZero) =>
    /\ \A a \in {"storage_area", "loan_area", "vip_area", "short_term_area"} :
         IsZero(session_params[a])
    /\ base_financials.total_income = base_financials.marketing_income
    /\ base_financials.marketing_income =
         Mul(Q(3, 2), session_params.marketing_expenses)
    /\ base_financials.total_expenses =
         calculate_financials(WithShares(session_params, InitialShares)).total_expenses
    /\ Lt(base_financials.marketing_income,
          Add(base_financials.monthly_expenses, base_financials.one_time_expenses))
         => IsNeg(base_financials.profit)

\* all types disabled, with tariffs and a rate that would earn on any area,
\* marketing income, and a loss
C15_Witness ==
  /\ Computed /\ AllSharesZero
  /\ IsPos(session_params.storage_fee) /\ IsPos(session_params.loan_interest_rate)
  /\ IsPos(session_params.short_term_daily_rate)
  /\ IsPos(base_financials.marketing_income)
  /\ IsPos(calculate_financials(WithShares(session_params, InitialShares)).storage_income)
  /\ IsNeg(base_financials.profit)

-----------------------------------------------------------------------------
(* Claims about the SpaceModel, checked under SpecAreas.                   *)

AreasReturned == pc \in {"areas", "areas_financials"}
AreaKeys == {"storage_area", "loan_area", "vip_area", "short_term_area"}
\* the share a returned area belongs to
ShareOf(a) ==
  CASE a = "storage_area" -> "storage_share"
    [] a = "loan_area" -> "loan_share"
    [] a = "vip_area" -> "vip_share"
    [] OTHER -> "short_term_share"
\* total_area * useful_area_ratio * 2 * shelves_per_m2 of the call
DoubleShelfArea ==
  Mul(Mul(Mul(areas_call.total_area, areas_call.useful_area_ratio), Q(2, 1)),
      areas_call.shelves_per_m2)

\* C16: the four returned areas sum to total_area * useful_area_ratio * 2 *
\* shelves_per_m2 * (sum of the four shares), and each area is that
\* double-shelf area times its own share.
C16_AreasLinearInShares ==
  AreasReturned =>
    /\ SumOver(areas_call.out, AreaKeys) =
         Mul(DoubleShelfArea, SumOver(areas_call.s, KeySet))
    /\ \A a \in AreaKeys :
         areas_call.out[a] = Mul(DoubleShelfArea, areas_call.s[ShareOf(a)])

\* areas returned on three shelves per m2 for unequal shares that do not sum
\* to 1
C16_Witness ==
  /\ AreasReturned
  /\ SumOver(areas_call.s, KeySet) # One
  /\ IsPos(DoubleShelfArea)
  /\ areas_call.out["vip_area"] # areas_call.out["short_term_area"]
  /\ areas_call.shelves_per_m2 = Q(3, 1)

\* the scenario's arguments
Scenario250 ==
  /\ areas_call.total_area = Q(250, 1)
  /\ areas_call.useful_area_ratio = Q(1, 2)
  /\ areas_call.shelves_per_m2 = Q(3, 1)
  /\ areas_call.s = InitialShares

\* C17: for total_area 250, useful_area_ratio 0.5, shelves_per_m2 3, shares
\* (0.5, 0.3, 0.1, 0.1) and storage_fee 1500, calculate_areas returns the
\* areas 375, 225, 75, 75 and calculate_financials on the resulting
\* parameters returns storage_income 562500.
C17_Scenario ==
  (AreasReturned /\ Scenario250) =>
    /\ areas_call.out = [storage_area |-> Q(375, 1), loan_area |-> Q(225, 1),
                         vip_area |-> Q(75, 1), short_term_area |-> Q(75, 1)]
    /\ (pc = "areas_financials" /\ session_params.storage_fee = Q(1500, 1)) =>
         base_financials.storage_income = Q(562500, 1)

\* the scenario computed through to the financial result
C17_Witness ==
  /\ pc = "areas_financials" /\ Scenario250
  /\ session_params.storage_fee = Q(1500, 1)
  /\ session_params.storage_area = Q(375, 1)
  /\ base_financials.storage_income = Q(562500, 1)

-----------------------------------------------------------------------------
(* Claims about the automatic mode, checked under SpecAuto.                *)

PassDone == last_pass.mode = "automatic"

\* C19: at the end of every automatic-mode pass in which at least one
\* storage type is active, the four shares sum to 1.0.
C19_PassSumsToOne ==
  (PassDone /\ last_pass.disabled # KeySet) =>
    Within1e9(Sub(SumOver(shares, KeySet), One))

-----------------------------------------------------------------------------
(* Claims about normalize_shares with no other share > 0, checked under    *)
(* Spec.                                                                   *)

NoOthers == Called /\ OthersBefore = {}

-----------------------------------------------------------------------------
(* Claims about the result dict's income fields, checked under SpecDirect. *)

\* the params did not make the try block raise
NonFaulting == ~ Faults(session_params)

\* the six income components reported in the dict, summed in the order of
\* the source's expression
IncomeComponentsSum(r) ==
  Add(Add(Add(Add(Add(r.storage_income, r.loan_income_after_realization),
                  r.realization_income), r.vip_income), r.short_term_income),
      r.marketing_income)

\* C21: in every result of calculate_financials that did not come from the
\* except branch, total_income equals storage_income +
\* loan_income_after_realization + realization_income + vip_income +
\* short_term_income + marketing_income of the same result.
C21_TotalIncomeIsSum ==
  (Computed /\ NonFaulting) =>
    base_financials.total_income = IncomeComponentsSum(base_financials)

\* a non-faulting result in which every one of the six components is > 0
C21_Witness ==
  /\ Computed
  /\ NonFaulting
  /\ IsPos(base_financials.storage_income)
  /\ IsPos(base_financials.loan_income_after_realization)
  /\ IsPos(base_financials.realization_income)
  /\ IsPos(base_financials.vip_income)
  /\ IsPos(base_financials.short_term_income)
  /\ IsPos(base_financials.marketing_income)
  /\ base_financials.total_income = IncomeComponentsSum(base_financials)

-----------------------------------------------------------------------------
(* Claims about the scan of the break-even tab, checked under SpecScript.  *)

\* the tab was rendered
TabDone == tab # None

\* the profit of calculate_financials on the tab's base parameters with the
\* tab's parameter set to val and every other field as in the base
BaseProfitWith(val) ==
  calculate_financials([tab.params_before EXCEPT ![tab.param_key] = val]).profit

\* C22: perform_sensitivity_analysis returns one row per input value, in the
\* input order; row i holds values[i] and the profit of calculate_financials
\* on the base parameters with param_key set to values[i], every other field
\* being the base's.
C22_OneRowPerValue ==
  TabDone =>
    /\ Len(tab.rows) = Len(tab.values)
    /\ \A i \in 1..Len(tab.values) :
         /\ tab.rows[i].value = tab.values[i]
         /\ tab.rows[i].profit = BaseProfitWith(tab.values[i])

\* a scan of 100 distinct increasing values whose profits differ along the rows
C22_Witness ==
  /\ TabDone
  /\ Len(tab.rows) = ScanPoints
  /\ \A i \in 1..(Len(tab.values) - 1) : Lt(tab.values[i], tab.values[i + 1])
  /\ Lt(tab.rows[1].profit, tab.rows[Len(tab.rows)].profit)
  /\ tab.rows[2].value = tab.values[2]

\* row i of the scan (i >= 2: the first row has no previous one) has
\* profit >= 0 while the row before it has profit < 0
CrossesAt(i) ==
  /\ i \in 2..Len(tab.rows)
  /\ ~ IsNeg(tab.rows[i].profit)
  /\ IsNeg(tab.rows[i - 1].profit)

\* C23: the grid break-even value the scan reports is the parameter value at
\* the smallest index with profit >= 0 there and profit < 0 just before it;
\* when no index is such (the first profit is >= 0 already, or the profit
\* never rises through zero) the scan reports that no break-even point was
\* found.
C23_FirstCrossing ==
  TabDone =>
    IF \E i \in 1..Len(tab.rows) : CrossesAt(i)
      THEN \E i \in 1..Len(tab.rows) :
             /\ CrossesAt(i)
             /\ \A j \in 1..(i - 1) : ~ CrossesAt(j)
             /\ tab.bep_value # None
             /\ tab.bep_value = tab.rows[i].value
      ELSE tab.bep_value = None

\* a scan whose profit rises through zero past its second row: a value is
\* reported
C23_Witness ==
  /\ TabDone
  /\ \E i \in 3..Len(tab.rows) : CrossesAt(i) /\ tab.bep_value = tab.rows[i].value
  /\ IsNeg(tab.rows[1].profit)

\* a scan whose first profit is >= 0 already: nothing is reported
C23_NoCrossing ==
  /\ TabDone
  /\ ~ IsNeg(tab.rows[1].profit)
  /\ tab.bep_value = None

\* the base value of the tab's parameter, which is calculate_bep's base_value
TabBaseValue == tab.params_before[tab.param_key]

\* C24: for every tunable parameter the range swept by the scan has the
\* endpoints of the solver's bracket, 0.5 * base_value and 1.5 * base_value
\* of that parameter.
C24_ScanSweepsSolverBracket ==
  TabDone =>
    /\ bep.base_value = TabBaseValue
    /\ tab.values[1] = Mul(bep.base_value, Q(1, 2))
    /\ tab.values[Len(tab.values)] = Mul(bep.base_value, Q(3, 2))

\* the tab showed a break-even value
Displayed == tab.bep_value # None

\* C28: for each tunable parameter and every validated parameter set the tab
\* displays a break-even value exactly when calculate_bep returned a value;
\* a None from the solver is never displayed as a found point.
C28_DisplayedIffSolverFound ==
  (TabDone /\ inputs_valid = <<TRUE>>) =>
    (Displayed <=> (bep.out.result # None))

-----------------------------------------------------------------------------
(* Claims about the solver's termination, checked under SpecEngine.        *)

\* a calculate_bep call was made
BepCalled == pc = "bep"

\* a float: in the model a rational <<n, d>>
IsValue(x) == x # None /\ Len(x) = 2 /\ x[2] > 0

\* C25: every call of calculate_bep terminates and returns a value or None:
\* no exception leaves it, and the bisection loop runs at most 100
\* iterations (running out of them gives None, not an exception).
C25_BepReturns ==
  BepCalled =>
    /\ bep.out.raised = "none"
    /\ bep.out.iterations <= 100
    /\ bep.out.result = None \/ IsValue(bep.out.result)

\* a call whose bisection loop ran several iterations and returned a value,
\* inside the bracket
C25_Witness ==
  /\ BepCalled
  /\ bep.out.bisect_called
  /\ bep.out.iterations >= 5
  /\ bep.out.iterations <= maxiter
  /\ bep.out.raised = "none"
  /\ IsValue(bep.out.result)
  /\ Le(BepLower, bep.out.result) /\ Le(bep.out.result, BepUpper)

-----------------------------------------------------------------------------
(* Claims about the parameters the sidebar builds, checked under           *)
(* SpecScript.                                                             *)

\* the run built its parameters from the widgets
ParamsBuilt == widgets.mode # "none"

\* C26: in both modes, automatic and manual, the storage_fee of the
\* WarehouseParams handed to validation and to the engine is the tariff the
\* user entered in the storage-tariff input.
C26_StorageFeeIsTariff ==
  ParamsBuilt => session_params.storage_fee = widgets.storage_fee

-----------------------------------------------------------------------------
(* Claims about the user's edit in an automatic-mode pass, checked under   *)
(* SpecAuto.                                                               *)

\* a pass in which the user moved exactly one active slider while every
\* other slider reports the share it showed before the pass, the shares
\* before the pass summing to 1
OneEditOthersStale ==
  /\ PassDone
  /\ last_pass.edited # "none"
  /\ last_pass.others = "stale"
  /\ SumOver(last_pass.before, KeySet) = One

\* C27: after such a pass the edited share equals the value v in [0,1] the
\* user gave it, whichever position the edited slider has in the processing
\* order.
C27_EditedShareKept ==
  OneEditOthersStale =>
    (InUnit(last_pass.value) /\ shares[last_pass.edited] = last_pass.value)

-----------------------------------------------------------------------------
(* Claims about the remaining-share progress bar, checked under            *)
(* SpecPasses.                                                             *)

\* a pass of either mode drew the progress bar
ProgressDrawn == last_pass.mode # "none" /\ last_pass.progress # None

\* C29: in both modes the remaining share passed to the progress bar
\* (1 - sum of the four shares) lies in [0,1], for every combination of
\* share inputs between 0% and 100%.
C29_ProgressInUnit ==
  ProgressDrawn => InUnit(last_pass.progress)

-----------------------------------------------------------------------------
(* Claims about the branches of normalize_shares, checked under Spec.      *)

\* other_keys of the last call, as the call computed it: after the edited
\* share was stored
OtherKeysOfCall ==
  OtherKeys([call.before EXCEPT ![call.key] = call.value], call.key)

\* C30: in normalize_shares the equal-split branch is never executed:
\* whenever the list of other keys is non-empty the sum of their current
\* values is strictly positive, so a redistribution is always proportional.
C30_EqualSplitNeverRuns ==
  Called =>
    /\ call.branch # "equal"
    /\ OtherKeysOfCall # {} =>
         /\ IsPos(SumOver(call.before, OtherKeysOfCall))
         /\ call.branch = "proportional"

\* a call that redistributed proportionally while another share was 0 and
\* stayed out of other_keys
C30_Witness ==
  /\ Called
  /\ call.branch = "proportional"
  /\ OtherKeysOfCall # {}
  /\ \E k \in KeySet \ {call.key} : IsZero(call.before[k]) /\ IsZero(shares[k])

====
